---- MODULE Spec2Model ----
(***************************************************************************)
(* Model of src/src/lib.rs: the ProductRange double-ended iterator, the    *)
(* Palindrome newtype and palindrome_products.                             *)
(*                                                                         *)
(* u64 is modelled as an unsigned integer of Width bits (values in         *)
(* 0 .. Modulus-1).  Rust arithmetic on it panics on overflow when the     *)
(* build has overflow checks (debug profile) and wraps modulo 2^Width      *)
(* otherwise (release profile); overflow_checks is chosen in Init.         *)
(***************************************************************************)
EXTENDS Integers, Sequences, FiniteSets, TLC

\* ------------------------------------------------------------------ bounds

\* Largest range endpoint tried by the enumerator specifications.
MaxN == 5

\* Largest range endpoint tried by the enumerator specification in which
\* the iteration order of the map is explicit.
MaxO == 4

\* Largest range endpoint tried by the specification of palindrome_products
\* from its call to its return.
MaxF == 7

\* Largest range endpoint tried by the palindrome_products specification.
MaxP == 12

\* Largest range endpoint tried by the specification of palindrome_products
\* on ranges whose squares need not fit the integer type.
MaxW == 17

\* Largest value handed to Palindrome::new by the predicate specification.
MaxV == 130

\* Width in bits of the unsigned integer type (u64 in the source, scaled so
\* that the wrapped values stay enumerable).
Width == 8

Modulus == 2 ^ Width

\* Triangular number: the count of unordered pairs drawn from n factors.
Tri(n) == (n * (n + 1)) \div 2

\* Length up to which the emission histories are recorded.
MaxOut == Tri(MaxN + 1) + 2

\* -------------------------------------------------------- Option<u64>

None == [some |-> FALSE]

Some(v) == [some |-> TRUE, val |-> v]

\* ------------------------------------------------------ u64 arithmetic

Overflows(x) == x < 0 \/ x >= Modulus

Wrap(x) == ((x % Modulus) + Modulus) % Modulus

\* ------------------------------------------------------------ helpers

SetMin(S) == CHOOSE x \in S : \A y \in S : x <= y

SetMax(S) == CHOOSE x \in S : \A y \in S : x >= y

Values(data) == {data[k] : k \in DOMAIN data}

Restrict(f, S) == [k \in S |-> f[k]]

\* --------------------------------------------------------- ProductRange

\* A variant of new that normalises a reversed range (max..=min when min > max).
new_swapped(mn, mx) ==
    LET lo == IF mn <= mx THEN mn ELSE mx
        hi == IF mn <= mx THEN mx ELSE mn
    IN  [ovf |-> \E i \in lo..hi : Overflows(i * i),
         pr  |-> [min |-> mn, max |-> mx, last_min |-> None, last_max |-> None,
                  data |-> [i \in lo..hi |-> Wrap(i * i)]]]

\* A variant of new that starts each row at its first product (i, i * min).
new_row_start(mn, mx) ==
    [ovf |-> \E i \in mn..mx : Overflows(i * mn),
     pr  |-> [min |-> mn, max |-> mx, last_min |-> None, last_max |-> None,
              data |-> [i \in mn..mx |-> Wrap(i * mn)]]]

\* ProductRange::new: one entry (i, i * i) per i in min..=max, no watermark.
\* ovf: some i * i left the integer range.
new(mn, mx) ==
    [ovf |-> \E i \in mn..mx : Overflows(i * i),
     pr  |-> [min |-> mn, max |-> mx, last_min |-> None, last_max |-> None,
              data |-> [i \in mn..mx |-> Wrap(i * i)]]]

\* ProductRange::find_keys: the keys whose value is `value`.
find_keys(pr, value) == {k \in DOMAIN pr.data : pr.data[k] = value}

\* A variant of next that retires a row one product early (v < k * max).
next_strict_bound(pr) ==
    IF DOMAIN pr.data = {}
    THEN [ret |-> None, pr |-> pr, ovf |-> FALSE]
    ELSE LET min_val   == SetMin(Values(pr.data))
             to_update == {k \in DOMAIN pr.data : pr.data[k] = min_val}
             updated   == [k \in DOMAIN pr.data |->
                             IF k \in to_update THEN Wrap(pr.data[k] + k)
                                                ELSE pr.data[k]]
             in_row    == {k \in DOMAIN updated : updated[k] < Wrap(k * pr.max)}
             kept      == IF pr.last_max.some
                          THEN {k \in in_row : updated[k] < pr.last_max.val}
                          ELSE in_row
         IN  [ret |-> Some(min_val),
              pr  |-> [pr EXCEPT !.data = Restrict(updated, kept),
                                 !.last_min = Some(min_val)],
              ovf |-> \/ \E k \in to_update : Overflows(pr.data[k] + k)
                      \/ \E k \in DOMAIN pr.data : Overflows(k * pr.max)]

\* A variant of next that steps the value, not the counterpart, by one (v += 1).
next_step_one(pr) ==
    IF DOMAIN pr.data = {}
    THEN [ret |-> None, pr |-> pr, ovf |-> FALSE]
    ELSE LET min_val   == SetMin(Values(pr.data))
             to_update == {k \in DOMAIN pr.data : pr.data[k] = min_val}
             updated   == [k \in DOMAIN pr.data |->
                             IF k \in to_update THEN Wrap(pr.data[k] + 1)
                                                ELSE pr.data[k]]
             in_row    == {k \in DOMAIN updated : updated[k] <= Wrap(k * pr.max)}
             kept      == IF pr.last_max.some
                          THEN {k \in in_row : updated[k] < pr.last_max.val}
                          ELSE in_row
         IN  [ret |-> Some(min_val),
              pr  |-> [pr EXCEPT !.data = Restrict(updated, kept),
                                 !.last_min = Some(min_val)],
              ovf |-> \/ \E k \in to_update : Overflows(pr.data[k] + 1)
                      \/ \E k \in DOMAIN pr.data : Overflows(k * pr.max)]

\* A variant of next that rewinds an exhausted instance: on an empty frontier
\* it returns None and rebuilds the diagonal.
next_rewinds(pr) ==
    IF DOMAIN pr.data = {}
    THEN [ret |-> None, pr |-> [pr EXCEPT !.data = new(pr.min, pr.max).pr.data],
          ovf |-> FALSE]
    ELSE LET min_val   == SetMin(Values(pr.data))
             to_update == {k \in DOMAIN pr.data : pr.data[k] = min_val}
             updated   == [k \in DOMAIN pr.data |->
                             IF k \in to_update THEN Wrap(pr.data[k] + k)
                                                ELSE pr.data[k]]
             in_row    == {k \in DOMAIN updated : updated[k] <= Wrap(k * pr.max)}
             kept      == IF pr.last_max.some
                          THEN {k \in in_row : updated[k] < pr.last_max.val}
                          ELSE in_row
         IN  [ret |-> Some(min_val),
              pr  |-> [pr EXCEPT !.data = Restrict(updated, kept),
                                 !.last_min = Some(min_val)],
              ovf |-> \/ \E k \in to_update : Overflows(pr.data[k] + k)
                      \/ \E k \in DOMAIN pr.data : Overflows(k * pr.max)]

\* Iterator::next.  ret: the returned Option; pr: the instance afterwards;
\* ovf: some v + k or k * max left the integer range.
next(pr) ==
    IF DOMAIN pr.data = {}
    THEN [ret |-> None, pr |-> pr, ovf |-> FALSE]
    ELSE LET min_val   == SetMin(Values(pr.data))
             to_update == find_keys(pr, min_val)
             updated   == [k \in DOMAIN pr.data |->
                             IF k \in to_update THEN Wrap(pr.data[k] + k)
                                                ELSE pr.data[k]]
             in_row    == {k \in DOMAIN updated : updated[k] <= Wrap(k * pr.max)}
             kept      == IF pr.last_max.some
                          THEN {k \in in_row : updated[k] < pr.last_max.val}
                          ELSE in_row
         IN  [ret |-> Some(min_val),
              pr  |-> [pr EXCEPT !.data = Restrict(updated, kept),
                                 !.last_min = Some(min_val)],
              ovf |-> \/ \E k \in to_update : Overflows(pr.data[k] + k)
                      \/ \E k \in DOMAIN pr.data : Overflows(k * pr.max)]

\* A variant of next_back whose watermark filter reads last_max (its own
\* watermark) where the source reads last_min.
next_back_own_mark(pr) ==
    IF DOMAIN pr.data = {}
    THEN [ret |-> None, pr |-> pr, ovf |-> FALSE]
    ELSE LET max_val   == SetMax(Values(pr.data))
             to_update == {k \in DOMAIN pr.data : pr.data[k] = max_val}
             updated   == [k \in DOMAIN pr.data |->
                             IF k \in to_update THEN Wrap(pr.data[k] - k)
                                                ELSE pr.data[k]]
             in_row    == {k \in DOMAIN updated : updated[k] >= Wrap(k * pr.min)}
             kept      == IF pr.last_max.some
                          THEN {k \in in_row : updated[k] > pr.last_max.val}
                          ELSE in_row
         IN  [ret |-> Some(max_val),
              pr  |-> [pr EXCEPT !.data = Restrict(updated, kept),
                                 !.last_max = Some(max_val)],
              ovf |-> \/ \E k \in to_update : Overflows(pr.data[k] - k)
                      \/ \E k \in DOMAIN pr.data : Overflows(k * pr.min)]

\* A variant of next_back that rewinds an exhausted instance: on an empty
\* frontier it returns None and rebuilds the diagonal.
next_back_rewinds(pr) ==
    IF DOMAIN pr.data = {}
    THEN [ret |-> None, pr |-> [pr EXCEPT !.data = new(pr.min, pr.max).pr.data],
          ovf |-> FALSE]
    ELSE LET max_val   == SetMax(Values(pr.data))
             to_update == {k \in DOMAIN pr.data : pr.data[k] = max_val}
             updated   == [k \in DOMAIN pr.data |->
                             IF k \in to_update THEN Wrap(pr.data[k] - k)
                                                ELSE pr.data[k]]
             in_row    == {k \in DOMAIN updated : updated[k] >= Wrap(k * pr.min)}
             kept      == IF pr.last_min.some
                          THEN {k \in in_row : updated[k] > pr.last_min.val}
                          ELSE in_row
         IN  [ret |-> Some(max_val),
              pr  |-> [pr EXCEPT !.data = Restrict(updated, kept),
                                 !.last_max = Some(max_val)],
              ovf |-> \/ \E k \in to_update : Overflows(pr.data[k] - k)
                      \/ \E k \in DOMAIN pr.data : Overflows(k * pr.min)]

\* DoubleEndedIterator::next_back.  ovf: some v - k or k * min left the
\* integer range.
next_back(pr) ==
    IF DOMAIN pr.data = {}
    THEN [ret |-> None, pr |-> pr, ovf |-> FALSE]
    ELSE LET max_val   == SetMax(Values(pr.data))
             to_update == find_keys(pr, max_val)
             updated   == [k \in DOMAIN pr.data |->
                             IF k \in to_update THEN Wrap(pr.data[k] - k)
                                                ELSE pr.data[k]]
             in_row    == {k \in DOMAIN updated : updated[k] >= Wrap(k * pr.min)}
             kept      == IF pr.last_min.some
                          THEN {k \in in_row : updated[k] > pr.last_min.val}
                          ELSE in_row
         IN  [ret |-> Some(max_val),
              pr  |-> [pr EXCEPT !.data = Restrict(updated, kept),
                                 !.last_max = Some(max_val)],
              ovf |-> \/ \E k \in to_update : Overflows(pr.data[k] - k)
                      \/ \E k \in DOMAIN pr.data : Overflows(k * pr.min)]

\* ------------------------------------- ProductRange, map order explicit

\* The orders in which the keys S can come out of an iteration of the map.
RECURSIVE Orders(_)
Orders(S) ==
    IF S = {} THEN {<<>>}
    ELSE UNION {{<<k>> \o o : o \in Orders(S \ {k})} : k \in S}

\* The entries min_by_key can return: which of the rows of least value it
\* is depends on the order of iteration.
min_by_key(pr) == {k \in DOMAIN pr.data : \A j \in DOMAIN pr.data : pr.data[k] <= pr.data[j]}

\* The entries max_by_key can return.
max_by_key(pr) == {k \in DOMAIN pr.data : \A j \in DOMAIN pr.data : pr.data[k] >= pr.data[j]}

\* A variant of add_each that advances only the first of the rows handed to it.
add_first(data, to_update) ==
    IF to_update = <<>> THEN data
    ELSE [data EXCEPT ![Head(to_update)] = Wrap(@ + Head(to_update))]

\* for k in to_update { *v += k }, one row after the other.
RECURSIVE add_each(_, _)
add_each(data, to_update) ==
    IF to_update = <<>> THEN data
    ELSE add_each([data EXCEPT ![Head(to_update)] = Wrap(@ + Head(to_update))],
                  Tail(to_update))

\* for k in to_update { *v -= k }, one row after the other.
RECURSIVE sub_each(_, _)
sub_each(data, to_update) ==
    IF to_update = <<>> THEN data
    ELSE sub_each([data EXCEPT ![Head(to_update)] = Wrap(@ - Head(to_update))],
                  Tail(to_update))

\* Iterator::next on a non-empty frontier when the scan returns the entry
\* `picked` and find_keys returns the vector to_update.
next_by(pr, picked, to_update) ==
    LET min_val == pr.data[picked]
        updated == add_each(pr.data, to_update)
        in_row  == {k \in DOMAIN updated : updated[k] <= Wrap(k * pr.max)}
        kept    == IF pr.last_max.some
                   THEN {k \in in_row : updated[k] < pr.last_max.val}
                   ELSE in_row
    IN  [ret |-> Some(min_val),
         pr  |-> [pr EXCEPT !.data = Restrict(updated, kept),
                            !.last_min = Some(min_val)],
         ovf |-> \/ \E i \in 1..Len(to_update) :
                        Overflows(pr.data[to_update[i]] + to_update[i])
                 \/ \E k \in DOMAIN pr.data : Overflows(k * pr.max)]

\* DoubleEndedIterator::next_back on a non-empty frontier, likewise.
next_back_by(pr, picked, to_update) ==
    LET max_val == pr.data[picked]
        updated == sub_each(pr.data, to_update)
        in_row  == {k \in DOMAIN updated : updated[k] >= Wrap(k * pr.min)}
        kept    == IF pr.last_min.some
                   THEN {k \in in_row : updated[k] > pr.last_min.val}
                   ELSE in_row
    IN  [ret |-> Some(max_val),
         pr  |-> [pr EXCEPT !.data = Restrict(updated, kept),
                            !.last_max = Some(max_val)],
         ovf |-> \/ \E i \in 1..Len(to_update) :
                        Overflows(pr.data[to_update[i]] - to_update[i])
                 \/ \E k \in DOMAIN pr.data : Overflows(k * pr.min)]

\* Every outcome next can have on pr, over the entries the scan may return
\* and the orders in which find_keys may list the tied rows.
next_outcomes(pr) ==
    IF DOMAIN pr.data = {}
    THEN {[ret |-> None, pr |-> pr, ovf |-> FALSE]}
    ELSE {next_by(pr, picked, to_update) :
              <<picked, to_update>> \in
                  UNION {{<<k, o>> : o \in Orders(find_keys(pr, pr.data[k]))} :
                             k \in min_by_key(pr)}}

\* Every outcome next_back can have on pr.
next_back_outcomes(pr) ==
    IF DOMAIN pr.data = {}
    THEN {[ret |-> None, pr |-> pr, ovf |-> FALSE]}
    ELSE {next_back_by(pr, picked, to_update) :
              <<picked, to_update>> \in
                  UNION {{<<k, o>> : o \in Orders(find_keys(pr, pr.data[k]))} :
                             k \in max_by_key(pr)}}

\* ------------------------------------------------------------ Palindrome

\* u64::to_string: the decimal digits, most significant first.
RECURSIVE to_string(_)
to_string(v) == IF v < 10 THEN <<v>> ELSE Append(to_string(v \div 10), v % 10)

\* A variant of rev that leaves the string as it is.
rev_forgotten(s) == s

\* chars().rev().collect::<String>()
rev(s) == [i \in 1..Len(s) |-> s[Len(s) + 1 - i]]

\* A variant of Palindrome::new whose shortcut takes two digits for one.
Palindrome_new_two_digits(value) ==
    IF value < 100
    THEN Some(value)
    ELSE IF to_string(value) = rev(to_string(value)) THEN Some(value) ELSE None

\* A variant of Palindrome::new that takes only positive values.
Palindrome_new_positive(value) ==
    IF value = 0
    THEN None
    ELSE IF to_string(value) = rev(to_string(value)) THEN Some(value) ELSE None

\* Palindrome::new
Palindrome_new(value) ==
    IF value < 10
    THEN Some(value)
    ELSE LET p1 == to_string(value)
             p2 == rev(p1)
         IN  IF p1 = p2 THEN Some(value) ELSE None

\* ----------------------------------------------------------------- state

VARIABLES
    min,              \* the range handed to new / palindrome_products
    max,
    overflow_checks,  \* TRUE: arithmetic overflow panics; FALSE: it wraps
    r1,               \* a ProductRange (the ascending one in palindrome_products)
    g1,               \* what r1's caller has seen: values returned by next (front)
                      \* and by next_back (back), a None (ended), a panic, a
                      \* silent wraparound
    r2,               \* a second, independent ProductRange (the descending one)
    g2,
    pc,               \* position inside palindrome_products / Palindrome::new
    min_pal,          \* palindrome_products: result of the ascending find_map
    max_pal,          \* palindrome_products: result of the descending find_map
    result,           \* palindrome_products: the returned Option
    value,            \* Palindrome::new: the argument
    pal               \* Palindrome::new: the returned Option

vars == <<min, max, overflow_checks, r1, g1, r2, g2, pc, min_pal, max_pal,
          result, value, pal>>

NoCalls(ovf, oc) ==
    [front |-> <<>>, back |-> <<>>, ended |-> FALSE,
     panicked |-> (ovf /\ oc), wrapped |-> (ovf /\ ~oc)]

\* The values a caller has been handed, in order, up to MaxOut of them.
Record(h, ret) == IF ret.some /\ Len(h) < MaxOut THEN Append(h, ret.val) ELSE h

\* The caller's view after a call with outcome o: an overflow panics under
\* overflow checks (nothing is returned) and otherwise goes unnoticed.
AfterNext(g, o) ==
    IF o.ovf /\ overflow_checks
    THEN [g EXCEPT !.panicked = TRUE]
    ELSE [g EXCEPT !.front = Record(g.front, o.ret),
                   !.ended = g.ended \/ ~o.ret.some,
                   !.wrapped = g.wrapped \/ o.ovf]

AfterNextBack(g, o) ==
    IF o.ovf /\ overflow_checks
    THEN [g EXCEPT !.panicked = TRUE]
    ELSE [g EXCEPT !.back = Record(g.back, o.ret),
                   !.ended = g.ended \/ ~o.ret.some,
                   !.wrapped = g.wrapped \/ o.ovf]

\* The instance after a call: a panic unwinds, the instance is not used again.
Instance(r, o) == IF o.ovf /\ overflow_checks THEN r ELSE o.pr

\* Two fresh enumerators over (mn, mx); nothing else is running.
Ranges(mn, mx, oc) ==
    /\ min = mn
    /\ max = mx
    /\ overflow_checks = oc
    /\ r1 = new(mn, mx).pr
    /\ g1 = NoCalls(new(mn, mx).ovf, oc)
    /\ r2 = new(mn, mx).pr
    /\ g2 = NoCalls(new(mn, mx).ovf, oc)
    /\ min_pal = None
    /\ max_pal = None
    /\ result = None
    /\ pal = None

\* ------------------------------------------------------- enumerator calls

\* r1.next()
Next1 ==
    /\ pc = "iter"
    /\ ~g1.panicked
    /\ r1' = Instance(r1, next(r1))
    /\ g1' = AfterNext(g1, next(r1))
    /\ UNCHANGED <<min, max, overflow_checks, r2, g2, pc, min_pal, max_pal,
                   result, value, pal>>

\* r1.next_back()
NextBack1 ==
    /\ pc = "iter"
    /\ ~g1.panicked
    /\ r1' = Instance(r1, next_back(r1))
    /\ g1' = AfterNextBack(g1, next_back(r1))
    /\ UNCHANGED <<min, max, overflow_checks, r2, g2, pc, min_pal, max_pal,
                   result, value, pal>>

\* r2.next_back()
NextBack2 ==
    /\ pc = "iter"
    /\ ~g2.panicked
    /\ r2' = Instance(r2, next_back(r2))
    /\ g2' = AfterNextBack(g2, next_back(r2))
    /\ UNCHANGED <<min, max, overflow_checks, r1, g1, pc, min_pal, max_pal,
                   result, value, pal>>

InitIter ==
    \E mn \in 0..MaxN, mx \in 0..MaxN, oc \in BOOLEAN :
        /\ Ranges(mn, mx, oc)
        /\ pc = "iter"
        /\ value = 0

\* One enumerator, next() and next_back() called on it in any order.
Next == Next1 \/ NextBack1

Spec == InitIter /\ [][Next]_vars

\* Two enumerators of the same range: r1 only ever asked next(), r2 only
\* ever asked next_back().
NextDrain == Next1 \/ NextBack2

SpecDrain == InitIter /\ [][NextDrain]_vars

\* The drains as their callers run them: a loop that keeps calling.
FairDrain == SpecDrain /\ WF_vars(Next1) /\ WF_vars(NextBack2)

\* r1.next(), the map iterated in whatever order it happens to have.
Next1Ordered ==
    /\ pc = "iter"
    /\ ~g1.panicked
    /\ \E o \in next_outcomes(r1) :
           /\ r1' = Instance(r1, o)
           /\ g1' = AfterNext(g1, o)
    /\ UNCHANGED <<min, max, overflow_checks, r2, g2, pc, min_pal, max_pal,
                   result, value, pal>>

\* r1.next_back(), likewise.
NextBack1Ordered ==
    /\ pc = "iter"
    /\ ~g1.panicked
    /\ \E o \in next_back_outcomes(r1) :
           /\ r1' = Instance(r1, o)
           /\ g1' = AfterNextBack(g1, o)
    /\ UNCHANGED <<min, max, overflow_checks, r2, g2, pc, min_pal, max_pal,
                   result, value, pal>>

InitOrdered ==
    \E mn \in 0..MaxO, mx \in 0..MaxO, oc \in BOOLEAN :
        /\ Ranges(mn, mx, oc)
        /\ pc = "iter"
        /\ value = 0

NextOrdered == Next1Ordered \/ NextBack1Ordered

\* One enumerator called in any order, its map iterated in any order.
SpecOrdered == InitOrdered /\ [][NextOrdered]_vars

\* ---------------------------------------------------- palindrome_products

\* ProductRange::new(min, max).find_map(|i| Palindrome::new(i)): one turn.
AscFind ==
    /\ pc = "asc"
    /\ ~g1.panicked
    /\ LET o == next(r1) IN
        /\ r1' = Instance(r1, o)
        /\ g1' = AfterNext(g1, o)
        /\ IF o.ovf /\ overflow_checks
           THEN UNCHANGED <<pc, min_pal>>
           ELSE IF ~o.ret.some
                THEN pc' = "desc" /\ min_pal' = None
                ELSE IF Palindrome_new(o.ret.val).some
                     THEN pc' = "desc" /\ min_pal' = Palindrome_new(o.ret.val)
                     ELSE UNCHANGED <<pc, min_pal>>
    /\ UNCHANGED <<min, max, overflow_checks, r2, g2, max_pal, result, value, pal>>

\* ProductRange::new(min, max).rev().find_map(|i| Palindrome::new(i)): one turn.
DescFind ==
    /\ pc = "desc"
    /\ ~g2.panicked
    /\ LET o == next_back(r2) IN
        /\ r2' = Instance(r2, o)
        /\ g2' = AfterNextBack(g2, o)
        /\ IF o.ovf /\ overflow_checks
           THEN UNCHANGED <<pc, max_pal>>
           ELSE IF ~o.ret.some
                THEN pc' = "match" /\ max_pal' = None
                ELSE IF Palindrome_new(o.ret.val).some
                     THEN pc' = "match" /\ max_pal' = Palindrome_new(o.ret.val)
                     ELSE UNCHANGED <<pc, max_pal>>
    /\ UNCHANGED <<min, max, overflow_checks, r1, g1, min_pal, result, value, pal>>

\* match (min_pal, max_pal)
Return ==
    /\ pc = "match"
    /\ result' = IF min_pal.some /\ max_pal.some
                 THEN Some(<<min_pal.val, max_pal.val>>)
                 ELSE None
    /\ pc' = "done"
    /\ UNCHANGED <<min, max, overflow_checks, r1, g1, r2, g2, min_pal, max_pal,
                   value, pal>>

InitProducts ==
    \E mn \in 0..MaxP, mx \in 0..MaxP, oc \in BOOLEAN :
        /\ Ranges(mn, mx, oc)
        /\ pc = IF g1.panicked THEN "panic" ELSE "asc"
        /\ value = 0

NextProducts == AscFind \/ DescFind \/ Return

SpecProducts == InitProducts /\ [][NextProducts]_vars

\* palindrome_products from its call on: no enumerator exists before the
\* call, which builds both from its arguments.
Call ==
    /\ pc = "call"
    /\ \E mn \in 0..MaxF, mx \in 0..MaxF :
           /\ min' = mn
           /\ max' = mx
           /\ r1' = new(mn, mx).pr
           /\ g1' = NoCalls(new(mn, mx).ovf, overflow_checks)
           /\ r2' = new(mn, mx).pr
           /\ g2' = NoCalls(new(mn, mx).ovf, overflow_checks)
           /\ pc' = IF new(mn, mx).ovf /\ overflow_checks THEN "panic" ELSE "asc"
    /\ UNCHANGED <<overflow_checks, min_pal, max_pal, result, value, pal>>

InitCall ==
    \E oc \in BOOLEAN :
        /\ Ranges(1, 0, oc)
        /\ pc = "call"
        /\ value = 0

NextCall == Call \/ AscFind \/ DescFind \/ Return

SpecCall == InitCall /\ [][NextCall]_vars

\* palindrome_products runs to completion on its caller's thread.
FairCall == SpecCall /\ WF_vars(NextCall)

\* palindrome_products on ranges that reach past the square root of Modulus.
InitWide ==
    \E mn \in 0..MaxW, mx \in 0..MaxW, oc \in BOOLEAN :
        /\ Ranges(mn, mx, oc)
        /\ pc = IF g1.panicked THEN "panic" ELSE "asc"
        /\ value = 0

SpecWide == InitWide /\ [][NextProducts]_vars

\* -------------------------------------------------------- Palindrome::new

Validate ==
    /\ pc = "new"
    /\ pal' = Palindrome_new(value)
    /\ pc' = "done"
    /\ UNCHANGED <<min, max, overflow_checks, r1, g1, r2, g2, min_pal, max_pal,
                   result, value>>

InitPalindrome ==
    /\ Ranges(1, 0, FALSE)
    /\ pc = "new"
    /\ value \in 0..MaxV

NextPalindrome == Validate

SpecPalindrome == InitPalindrome /\ [][NextPalindrome]_vars

\* ================================================================ claims

\* The achievable products of a range, as integers (no width).
Products(mn, mx) == {a * b : a, b \in mn..mx}

\* Decimal digits by position: the number of digits and the i-th digit
\* counted from the least significant one.
NumDigits(v) == IF v < 10 THEN 1 ELSE CHOOSE n \in 2..9 : 10 ^ (n - 1) <= v /\ v < 10 ^ n

Digit(v, i) == (v \div (10 ^ (i - 1))) % 10

IsDecimalPalindrome(v) ==
    \A i \in 1..NumDigits(v) : Digit(v, i) = Digit(v, NumDigits(v) + 1 - i)

PalindromicProducts(mn, mx) == {p \in Products(mn, mx) : IsDecimalPalindrome(p)}

\* C1: for every min <= max, palindrome_products returns Some((s, l)) exactly
\* when some product a*b with a, b in [min, max] is a decimal palindrome, and
\* then s is the smallest and l the largest palindromic product; (1, 9) gives
\* (1, 9) and (1, 1) gives (1, 1).
C1_SmallestAndLargest ==
    (pc = "done" /\ min <= max) =>
        /\ IF PalindromicProducts(min, max) = {}
           THEN result = None
           ELSE result = Some(<<SetMin(PalindromicProducts(min, max)),
                                SetMax(PalindromicProducts(min, max))>>)
        /\ (min = 1 /\ max = 9) => result = Some(<<1, 9>>)
        /\ (min = 1 /\ max = 1) => result = Some(<<1, 1>>)

\* C1 witness: the range (4, 11) has returned (44, 121), both of them found
\* after non-palindromic products were passed over.
C1_Witness ==
    /\ pc = "done" /\ min = 4 /\ max = 11
    /\ result = Some(<<44, 121>>)
    /\ Len(g1.front) > 1

\* C2: for every min > max, palindrome_products returns None without a panic:
\* both enumerators are exhausted on their first step, so neither search has
\* been handed a value.
C2_ReversedRangeNone ==
    min > max =>
        /\ pc # "panic" /\ ~g1.panicked /\ ~g2.panicked
        /\ g1.front = <<>> /\ g2.back = <<>>
        /\ min_pal = None /\ max_pal = None
        /\ pc = "done" => result = None

\* C2 witness: a call with min > max has returned None.
C2_Witness == min > max /\ pc = "done" /\ result = None

\* C8: Palindrome::new(v) is Some exactly when the decimal digits of v read
\* the same in both directions; every v < 10 is accepted, an accepted value
\* is carried unchanged and a rejected one yields None.
C8_AcceptsIffPalindromic ==
    pc = "done" =>
        /\ pal.some <=> IsDecimalPalindrome(value)
        /\ value < 10 => pal.some
        /\ pal.some => pal = Some(value)
        /\ ~pal.some => pal = None

\* C8 witness: a value of three digits ending in 0 has been rejected.
C8_Witness == pc = "done" /\ value = 110 /\ pal = None

\* C9: for every min <= max, once palindrome_products has run both searches,
\* the ascending one has found a palindrome iff the descending one has.
C9_BothOrNeither ==
    (pc \in {"match", "done"} /\ min <= max) => (min_pal.some <=> max_pal.some)

\* C9 witness: both searches of a range with min <= max have ended without a
\* palindrome, each after being handed products.
C9_Witness ==
    /\ pc = "done" /\ min <= max
    /\ ~min_pal.some /\ ~max_pal.some
    /\ Len(g1.front) > 1 /\ Len(g2.back) > 1

\* ------------------------------------------------------------- the drains
\* Under SpecDrain r1 is only ever asked next() and r2 only next_back():
\* g1.front is a pure ascending drain, g2.back a pure descending drain.

Exhausted(pr) == DOMAIN pr.data = {}

Elements(h) == {h[i] : i \in 1..Len(h)}

Reversed(h) == [i \in 1..Len(h) |-> h[Len(h) + 1 - i]]

RangeSize == max - min + 1

\* C3: for every min <= max, every value a pure ascending drain emits is some
\* a*b with a, b in [min, max], and each emitted value is greater than the
\* one emitted before it.
C3_AscendingSoundAndStrict ==
    min <= max =>
        \A i \in 1..Len(g1.front) :
            /\ g1.front[i] \in Products(min, max)
            /\ i > 1 => g1.front[i - 1] < g1.front[i]

\* C4: for every min <= max, each value a pure ascending drain emits is the
\* smallest product not emitted before it, and when next() returns None the
\* emitted values are exactly the products of the range.
C4_AscendingComplete ==
    min <= max =>
        /\ \A i \in 1..Len(g1.front) :
              LET rest == Products(min, max) \ {g1.front[j] : j \in 1..(i - 1)}
              IN  rest # {} /\ g1.front[i] = SetMin(rest)
        /\ Exhausted(r1) => Elements(g1.front) = Products(min, max)

\* C5: for every min <= max, when a pure descending drain and a pure
\* ascending drain of the same range have both reached None, the descending
\* sequence reversed is the ascending sequence.
C5_DescendingMirrorsAscending ==
    (min <= max /\ Exhausted(r1) /\ Exhausted(r2)) => Reversed(g2.back) = g1.front

\* C5 witness: both drains of a range of several factors have reached None,
\* having emitted more values than the range has factors.
C5_Witness ==
    /\ min < max /\ Exhausted(r1) /\ Exhausted(r2)
    /\ Len(g1.front) > RangeSize /\ Len(g2.back) > RangeSize

\* C6: for every min <= max, repeated next() on a fresh enumerator eventually
\* reaches the exhausted state, and so does repeated next_back().
C6_DrainsTerminate ==
    (min <= max) => (<>Exhausted(r1) /\ <>Exhausted(r2))

\* C7 (as stated): for every min <= max, a pure ascending drain has emitted
\* at most max - min + 1 values when it is exhausted, and so has a pure
\* descending drain.
C7_AtMostRangeSize ==
    min <= max =>
        /\ Exhausted(r1) => Len(g1.front) <= RangeSize
        /\ Exhausted(r2) => Len(g2.back) <= RangeSize

\* C7 (amended): for every min <= max, a pure ascending drain has emitted at
\* most n(n+1)/2 values, n = max - min + 1, when it is exhausted, and so has
\* a pure descending drain.
C7_AtMostTriangular ==
    min <= max =>
        /\ Exhausted(r1) => Len(g1.front) <= Tri(RangeSize)
        /\ Exhausted(r2) => Len(g2.back) <= Tri(RangeSize)

\* C7 witness: an exhausted ascending drain that emitted exactly n(n+1)/2
\* values, more than the range has factors.
C7_Witness ==
    /\ min < max /\ Exhausted(r1)
    /\ Len(g1.front) = Tri(RangeSize)

\* C10: no arithmetic of new, next or next_back (k*k, v += k, v -= k, k*max,
\* k*min) leaves the integer range and has its wrapped result used: an
\* overflow is impossible or reported.
C10_NoSilentWraparound == ~g1.wrapped /\ ~g2.wrapped

\* ------------------------------------- one instance drained from both ends

StrictlyIncreasing(h) == \A i, j \in 1..Len(h) : i < j => h[i] < h[j]

StrictlyDecreasing(h) == \A i, j \in 1..Len(h) : i < j => h[i] > h[j]

\* C11: for every min <= max and every interleaving of next() and
\* next_back() on one instance, the values returned by next() are strictly
\* increasing, those returned by next_back() are strictly decreasing, and
\* every value returned by next() is smaller than every value returned by
\* next_back(); so no value is returned twice.
C11_NoOverlap ==
    min <= max =>
        /\ StrictlyIncreasing(g1.front)
        /\ StrictlyDecreasing(g1.back)
        /\ \A i \in 1..Len(g1.front), j \in 1..Len(g1.back) :
               g1.front[i] < g1.back[j]

\* C12: for every min <= max and every interleaving of next() and
\* next_back() on one instance continued until the frontier is empty, the
\* values returned by next() together with those returned by next_back() are
\* exactly the products a*b with a, b in [min, max].
C12_NothingLost ==
    (min <= max /\ Exhausted(r1)) =>
        Elements(g1.front) \cup Elements(g1.back) = Products(min, max)

\* C13: in every state reached by next() and next_back() calls on an
\* instance with min <= max, every live entry (k, v) of the frontier has
\* min*min <= v <= max*max and v = k*m for some m in [min, max].
C13_FrontierInRange ==
    min <= max =>
        \A k \in DOMAIN r1.data :
            /\ min * min <= r1.data[k]
            /\ r1.data[k] <= max * max
            /\ \E m \in min..max : r1.data[k] = k * m

\* An ascending step that returned a value: afterwards every live row is
\* above it, and next() had not returned that value before.
AscendingStepCoalesces ==
    (Next1 /\ next(r1).ret.some /\ ~g1'.panicked) =>
        /\ \A k \in DOMAIN r1'.data : r1'.data[k] > next(r1).ret.val
        /\ \A i \in 1..Len(g1.front) : g1.front[i] # next(r1).ret.val

\* A descending step that returned a value: afterwards every live row is
\* below it, and next_back() had not returned that value before.
DescendingStepCoalesces ==
    (NextBack1 /\ next_back(r1).ret.some /\ ~g1'.panicked) =>
        /\ \A k \in DOMAIN r1'.data : r1'.data[k] < next_back(r1).ret.val
        /\ \A i \in 1..Len(g1.back) : g1.back[i] # next_back(r1).ret.val

\* C14: every ascending step that emits m advances every row whose value is
\* m, so after the step no live row has a value <= m and m is emitted once;
\* after a descending step that emits M no live row has a value >= M.
C14_TiesCoalesced ==
    [][min <= max => AscendingStepCoalesces /\ DescendingStepCoalesces]_vars

\* C15: after any sequence of calls on one instance, once next_back() has
\* emitted a value every live frontier value is below the last value it
\* emitted (kept in last_max), and once next() has emitted a value every live
\* frontier value is above the last value it emitted (kept in last_min).
C15_WatermarksBoundFrontier ==
    min <= max =>
        /\ r1.last_max.some =>
               \A k \in DOMAIN r1.data : r1.data[k] < r1.last_max.val
        /\ r1.last_min.some =>
               \A k \in DOMAIN r1.data : r1.data[k] > r1.last_min.val

\* C16: once the frontier is empty, every later next() or next_back()
\* returns None and leaves the instance (frontier, last_min, last_max, min,
\* max) as it was; no step makes an empty frontier non-empty.
C16_ExhaustionIsTerminal ==
    [][Exhausted(r1) =>
          /\ next(r1) = [ret |-> None, pr |-> r1, ovf |-> FALSE]
          /\ next_back(r1) = [ret |-> None, pr |-> r1, ovf |-> FALSE]
          /\ r1' = r1
          /\ g1'.ended
          /\ g1'.front = g1.front
          /\ g1'.back = g1.back]_vars

\* C16 witness: an instance drained from both ends whose caller has been
\* handed None on the empty frontier.
C16_Witness ==
    /\ min <= max /\ Exhausted(r1) /\ g1.ended
    /\ g1.front # <<>> /\ g1.back # <<>>

\* The caller has made no call on r1 yet.
Fresh(g) == g.front = <<>> /\ g.back = <<>> /\ ~g.ended /\ ~g.panicked

\* C17: new(min, max) yields a frontier with exactly one entry per k in
\* [min, max], each of value k*k, and both watermarks unset; when min > max
\* the frontier is empty and the first next() or next_back() returns None.
C17_Construction ==
    /\ Fresh(g1) =>
          /\ DOMAIN r1.data = min..max
          /\ \A k \in min..max : r1.data[k] = k * k
          /\ r1.last_min = None /\ r1.last_max = None
          /\ r1.min = min /\ r1.max = max
    /\ min > max =>
          /\ Exhausted(r1)
          /\ next(r1).ret = None /\ next_back(r1).ret = None
          /\ g1.front = <<>> /\ g1.back = <<>>

\* C17 witness: the first call on an instance built over a reversed range
\* has returned None.
C17_Witness == min > max /\ g1.ended /\ Exhausted(r1)

\* The live factors of pr lie in [min, max], so there are at most
\* max - min + 1 of them.
FrontierWithin(pr) ==
    /\ DOMAIN pr.data \subseteq min..max
    /\ min <= max => Cardinality(DOMAIN pr.data) <= RangeSize

\* C18: every step leaves the set of live factors equal to, or a subset of,
\* the set before it; the frontier therefore never has more than
\* max - min + 1 entries and all its keys lie in [min, max].
C18_FrontierNeverGrows ==
    [][/\ DOMAIN r1'.data \subseteq DOMAIN r1.data
       /\ FrontierWithin(r1)
       /\ FrontierWithin(r1')]_vars

\* C18 witness: steps have retired some rows of the frontier and not others.
C18_Witness ==
    /\ min < max
    /\ DOMAIN r1.data # {}
    /\ Cardinality(DOMAIN r1.data) < RangeSize

\* C19: for a given range and sequence of calls, the value returned by each
\* call and the frontier it leaves are the same whichever of the tied rows
\* the extreme-value scan returns and in whatever order the map is iterated:
\* each call has one outcome.
C19_OrderIndependent ==
    /\ Cardinality(next_outcomes(r1)) = 1
    /\ Cardinality(next_back_outcomes(r1)) = 1

\* C19 witness: calls have been made and at least two rows are tied at the
\* least value, so the scan has a choice and find_keys has two orders.
C19_Witness ==
    /\ 1 <= min /\ g1.front # <<>>
    /\ Cardinality(min_by_key(r1)) >= 2

\* ------------------------------------------- palindrome_products, cleanly

\* The range is well formed and its largest product fits the integer type.
Fits == min <= max /\ max * max < Modulus

\* C20: for every min <= max whose max*max fits the integer type, min = 0
\* included, palindrome_products returns: each of its two searches stops
\* after finitely many steps, and no step subtracts k from a smaller v or
\* adds or multiplies past the integer type.
C20_FinishesCleanly ==
    /\ (pc = "asc" /\ Fits) ~> (pc = "done")
    /\ [](Fits => ~g1.panicked /\ ~g1.wrapped /\ ~g2.panicked /\ ~g2.wrapped)

\* C20 witness: palindrome_products has returned for a range with min = 0
\* whose descending search took several steps to reach a palindrome.
C20_Witness ==
    /\ pc = "done" /\ min = 0
    /\ Len(g1.front) = 1
    /\ Len(g2.back) >= 3

====
